---- MODULE Spec2Model ----
(***************************************************************************)
(* A model of module-rs: the merge algebra (crate `module`), the merge     *)
(* accumulator MergeCell, and the file evaluator File (crate               *)
(* `module-util`).                                                         *)
(*                                                                         *)
(* Three specifications share one set of variables:                        *)
(*   SpecMerge  merge / merge_ref applied to a pair of values              *)
(*   SpecCell   a MergeCell fed a sequence of values                       *)
(*   SpecFile   a File evaluator walking a tree of module files            *)
(***************************************************************************)
EXTENDS Integers, Sequences, FiniteSets, TLC

(***************************************************************************)
(* Bounds of the model.                                                    *)
(***************************************************************************)
MaxLen == 2        \* longest list / text drawn as an operand
MaxPrio == 3       \* priorities are drawn from 1..MaxPrio
MaxKey == 2        \* map keys are drawn from 1..MaxKey
MaxFeeds == 3      \* values fed to one MergeCell
MaxImports == 2    \* longest import list of one module
MaxEdges == 3      \* imports declared by all parsed modules together
MaxReads == 2      \* top-level File::read calls on one evaluator
NumNames == 2      \* file names per directory

(***************************************************************************)
(* Errors: a kind and two traces.  Trace::add pushes at the front, so the  *)
(* head of a trace is the label added last.                                *)
(***************************************************************************)
NoErr == [kind |-> "None", modules |-> <<>>, value |-> <<>>]

with_kind(kind) == [kind |-> kind, modules |-> <<>>, value |-> <<>>]

collision == with_kind("Collision")

cycle == with_kind("Cycle")

custom == with_kind("Custom")

\* mutant: a label replaces the labels already held
TraceAdd_Replace(trace, label) == <<label>>

\* mutant: a label is pushed at the back of the list
TraceAdd_PushBack(trace, label) == Append(trace, label)

TraceAdd(trace, label) == <<label>> \o trace

\* the items of a sequence from the last to the first
Reverse(s) == [i \in 1..Len(s) |-> s[Len(s) + 1 - i]]

\* impl Display for Error: the kind, the value path as Value::components
\* yields it, then the modules from the one pushed first: "in" for the
\* first and "from" for each of the others
Display(e) ==
  LET m == Reverse(e.modules) IN
  [kind |-> e.kind,
   evaluating |-> e.value,
   lines |-> [i \in 1..Len(m) |-> [word |-> IF i = 1 THEN "in" ELSE "from", module |-> m[i]]]]

\* the label of a record field: the field name (or its rename), printed bare
FieldLabel(name) == [q |-> FALSE, s |-> name]

\* the label of a map key: format!("\"{k}\""), the key printed inside quotes
KeyLabel(k) == [q |-> TRUE, s |-> ToString(k)]

(***************************************************************************)
(* Results.  Result<T, Error> of merge is [ok, v, err]; the outcome of     *)
(* merge_ref is [ok, self, err] where self is the receiver after the call. *)
(***************************************************************************)
Ok(v) == [ok |-> TRUE, v |-> <<v>>, err |-> NoErr]

Err(e) == [ok |-> FALSE, v |-> <<>>, err |-> e]

RefOk(self) == [ok |-> TRUE, self |-> self, err |-> NoErr]

RefErr(self, e) == [ok |-> FALSE, self |-> self, err |-> e]

\* Context::with_value on a Result<T, Error>
with_value(r, label) ==
  IF r.ok THEN r ELSE [r EXCEPT !.err.value = TraceAdd(@, label)]

\* Context::with_module on a Result<T, Error>
with_module(r, m) ==
  IF r.ok THEN r ELSE [r EXCEPT !.err.modules = TraceAdd(@, m)]

(***************************************************************************)
(* Values.  A value is [t, v, x]: t names the Rust type constructor, v is  *)
(* the payload and x the extra field of the wrapper (priority, order),     *)
(* 0 when there is none.                                                   *)
(***************************************************************************)
V(t, v, x) == [t |-> t, v |-> v, x |-> x]

Int32(n) == V("i32", n, 0)
Str(s) == V("String", s, 0)
Unit == V("unit", 0, 0)
Merged(flag) == V("Merged", flag, 0)
None == V("Option", <<>>, 0)
Some(v) == V("Option", <<v>>, 0)
Vec(s) == V("Vec", s, 0)
BTreeSet(S) == V("BTreeSet", S, 0)
BTreeMap(f) == V("BTreeMap", f, 0)
Box(v) == V("Box", v, 0)
First(v) == V("First", v, 0)
Last(v) == V("Last", v, 0)
NoMerge(v) == V("NoMerge", v, 0)
Overridable(v, priority) == V("Overridable", v, priority)
Ordered(v, order) == V("Ordered", v, order)
Lines(content) == V("Lines", content, 0)
\* a struct deriving Merge: a sequence of fields [name, label, skip, v];
\* x = 1 marks a unit struct (no fields at all)
Struct(fields) == V("Struct", fields, 0)
UnitStruct == V("Struct", <<>>, 1)
Field(name, label, skip, v) == [name |-> name, label |-> label, skip |-> skip, v |-> v]

\* the types given the `unmergeable!` implementation that the model draws
UnmergeableTypes == {"i32", "String"}


(***************************************************************************)
(* The Merge trait.  merge is the consuming form, merge_ref the in-place   *)
(* form; a type that gives only merge_ref gets the trait's default merge.  *)
(***************************************************************************)
RECURSIVE Merge(_, _), MergeRef(_, _)

\* trait Merge, default method merge: self.merge_ref(other)?; Ok(self)
DefaultMerge(a, b) ==
  LET m == MergeRef(a, b) IN IF m.ok THEN Ok(m.self) ELSE Err(m.err)

\* mutant: two equal values merge into that value
UnmergeableMerge_EqualOk(a, b) == IF a = b THEN Ok(a) ELSE Err(collision)

\* unmergeable!(): both forms fail with a collision
UnmergeableMerge(a, b) == Err(collision)

UnmergeableMergeRef(a, b) == RefErr(a, collision)

\* impl Merge for ()
UnitMerge(a, b) == Ok(Unit)

UnitMergeRef(a, b) == RefOk(a)

\* the test helper Merged: merging sets the flag
MergedMergeRef(a, b) == RefOk(Merged(TRUE))

\* mutant: an absent receiver stays absent
OptionMergeRef_KeepsNone(a, b) ==
  IF a.v # <<>> /\ b.v # <<>>
    THEN LET m == MergeRef(a.v[1], b.v[1]) IN
         [ok |-> m.ok, self |-> Some(m.self), err |-> m.err]
    ELSE RefOk(a)

\* impl Merge for Option<T>
OptionMergeRef(a, b) ==
  IF a.v # <<>> /\ b.v # <<>>
    THEN LET m == MergeRef(a.v[1], b.v[1]) IN
         [ok |-> m.ok, self |-> Some(m.self), err |-> m.err]
    ELSE IF b.v = <<>> THEN RefOk(a)
    ELSE RefOk(b)

\* impl Merge for Box<T>
BoxMergeRef(a, b) ==
  LET m == MergeRef(a.v, b.v) IN
  [ok |-> m.ok, self |-> Box(m.self), err |-> m.err]

\* mutant: other's elements are put in front of self's
VecMergeRef_Prepend(a, b) == RefOk(Vec(b.v \o a.v))

\* impl Merge for Vec<T>: self.append(&mut other)
VecMergeRef(a, b) == RefOk(Vec(a.v \o b.v))

\* impl Merge for BTreeSet<T>: self.append(&mut other)
BTreeSetMergeRef(a, b) == RefOk(BTreeSet(a.v \cup b.v))

\* the keys of a BTreeMap in iteration (ascending) order
RECURSIVE SortedKeys(_)
SortedKeys(S) ==
  IF S = {} THEN <<>>
  ELSE LET k == CHOOSE x \in S : \A y \in S : x <= y IN
       <<k>> \o SortedKeys(S \ {k})

MapInsert(f, k, v) == [x \in (DOMAIN f) \cup {k} |-> IF x = k THEN v ELSE f[x]]

MapRemove(f, k) == [x \in (DOMAIN f) \ {k} |-> f[x]]

\* mutant: the error of a shared key is passed on without the key's label
RECURSIVE MapMergeLoop_NoLabel(_, _, _)
MapMergeLoop_NoLabel(self, other, ks) ==
  IF ks = <<>> THEN RefOk(BTreeMap(self))
  ELSE LET k == Head(ks)
           vb == other[k] IN
       IF k \notin DOMAIN self
         THEN MapMergeLoop_NoLabel(MapInsert(self, k, vb), other, Tail(ks))
         ELSE LET removed == MapRemove(self, k)
                  merged == Merge(self[k], vb) IN
              IF merged.ok
                THEN MapMergeLoop_NoLabel(MapInsert(removed, k, merged.v[1]), other, Tail(ks))
                ELSE RefErr(BTreeMap(removed), merged.err)

\* the loop of BTreeMap::merge_ref over other's entries, ks the keys left
RECURSIVE MapMergeLoop(_, _, _)
MapMergeLoop(self, other, ks) ==
  IF ks = <<>> THEN RefOk(BTreeMap(self))
  ELSE LET k == Head(ks)
           vb == other[k] IN
       IF k \notin DOMAIN self
         THEN MapMergeLoop(MapInsert(self, k, vb), other, Tail(ks))
         ELSE LET removed == MapRemove(self, k)
                  merged == with_value(Merge(self[k], vb), KeyLabel(k)) IN
              IF merged.ok
                THEN MapMergeLoop(MapInsert(removed, k, merged.v[1]), other, Tail(ks))
                ELSE RefErr(BTreeMap(removed), merged.err)

\* mutant: other's entries overwrite self's, as BTreeMap::extend would
BTreeMapMergeRef_Extend(a, b) ==
  RefOk(BTreeMap([k \in (DOMAIN a.v) \cup (DOMAIN b.v) |->
                    IF k \in DOMAIN b.v THEN b.v[k] ELSE a.v[k]]))

\* impl Merge for BTreeMap<K, V>
BTreeMapMergeRef(a, b) == MapMergeLoop(a.v, b.v, SortedKeys(DOMAIN b.v))

\* mutant: the inner values are merged
FirstMergeRef_MergesInner(a, b) ==
  LET m == MergeRef(a.v, b.v) IN
  [ok |-> m.ok, self |-> First(m.self), err |-> m.err]

\* impl Merge for First<T>
FirstMergeRef(a, b) == RefOk(a)

\* mutant: the receiver keeps its own value
LastMergeRef_KeepsSelf(a, b) == RefOk(a)

\* impl Merge for Last<T>: self.0 = other.0
LastMergeRef(a, b) == RefOk(Last(b.v))

\* impl Merge for NoMerge<T>
NoMergeMerge(a, b) == Err(collision)

NoMergeMergeRef(a, b) == RefErr(a, collision)

\* mutant: a receiver with the higher priority number is kept instead of replaced
OverridableMergeRef_KeepsSelf(a, b) ==
  IF a.x = b.x THEN RefErr(a, collision) ELSE RefOk(a)

\* mutant: a tie keeps the receiver instead of colliding
OverridableMergeRef_TieKeepsSelf(a, b) ==
  IF a.x <= b.x THEN RefOk(a) ELSE RefOk(b)

\* impl Merge for Overridable<T>: compare the priorities
OverridableMergeRef(a, b) ==
  IF a.x < b.x THEN RefOk(a)
  ELSE IF a.x > b.x THEN RefOk(b)
  ELSE RefErr(a, collision)

\* mutant: the swap is decided by the receiver's tag (swap when self is After)
OrderedMergeRef_SelfDecides(a, b) ==
  LET sv == IF a.x = "After" THEN b.v ELSE a.v
      ov == IF a.x = "After" THEN a.v ELSE b.v
      m == MergeRef(sv, ov) IN
  [ok |-> m.ok, self |-> Ordered(m.self, a.x), err |-> m.err]

\* impl Merge for Ordered<T>: swap the inner values when other is Before
OrderedMergeRef(a, b) ==
  LET sv == IF b.x = "Before" THEN b.v ELSE a.v
      ov == IF b.x = "Before" THEN a.v ELSE b.v
      m == MergeRef(sv, ov) IN
  [ok |-> m.ok, self |-> Ordered(m.self, a.x), err |-> m.err]

\* str::ends_with('\n') on a text held as a sequence of characters
EndsWithSep(content) == Len(content) > 0 /\ content[Len(content)] = "\n"

\* mutant: the separator is pushed whatever self ends with
LinesMergeRef_AlwaysSep(a, b) == RefOk(Lines(Append(a.v, "\n") \o b.v))

\* impl Merge for Lines
LinesMergeRef(a, b) ==
  LET pushed == IF EndsWithSep(a.v) THEN a.v ELSE Append(a.v, "\n") IN
  RefOk(Lines(pushed \o b.v))

\* mutant: the field's own name is pushed even when a rename is given
RECURSIVE DeriveMergeFields_NoRename(_, _, _)
DeriveMergeFields_NoRename(fa, fb, acc) ==
  IF fa = <<>> THEN Ok(Struct(acc))
  ELSE LET f == Head(fa) IN
       IF f.skip THEN DeriveMergeFields_NoRename(Tail(fa), Tail(fb), Append(acc, f))
       ELSE LET m == with_value(Merge(f.v, Head(fb).v), FieldLabel(f.name)) IN
            IF m.ok
              THEN DeriveMergeFields_NoRename(Tail(fa), Tail(fb), Append(acc, [f EXCEPT !.v = m.v[1]]))
              ELSE Err(m.err)

\* derive(Merge), fn merge: Ok(Self { f: Merge::merge(self.f, other.f).value(label)?, .. })
RECURSIVE DeriveMergeFields(_, _, _)
DeriveMergeFields(fa, fb, acc) ==
  IF fa = <<>> THEN Ok(Struct(acc))
  ELSE LET f == Head(fa) IN
       IF f.skip THEN DeriveMergeFields(Tail(fa), Tail(fb), Append(acc, f))
       ELSE LET m == with_value(Merge(f.v, Head(fb).v), FieldLabel(f.label)) IN
            IF m.ok
              THEN DeriveMergeFields(Tail(fa), Tail(fb), Append(acc, [f EXCEPT !.v = m.v[1]]))
              ELSE Err(m.err)

\* mutant: the consuming form merges a skipped field like any other
RECURSIVE DeriveMergeFields_NoSkip(_, _, _)
DeriveMergeFields_NoSkip(fa, fb, acc) ==
  IF fa = <<>> THEN Ok(Struct(acc))
  ELSE LET f == Head(fa)
           m == with_value(Merge(f.v, Head(fb).v), FieldLabel(f.label)) IN
       IF m.ok
         THEN DeriveMergeFields_NoSkip(Tail(fa), Tail(fb), Append(acc, [f EXCEPT !.v = m.v[1]]))
         ELSE Err(m.err)

DeriveMerge_NoSkip(a, b) ==
  IF a.x = 1 THEN Ok(UnitStruct) ELSE DeriveMergeFields_NoSkip(a.v, b.v, <<>>)

DeriveMerge(a, b) ==
  IF a.x = 1 THEN Ok(UnitStruct) ELSE DeriveMergeFields(a.v, b.v, <<>>)

\* derive(Merge), fn merge_ref: Merge::merge_ref(&mut self.f, other.f).value(label)?; ..
RECURSIVE DeriveMergeRefFields(_, _, _)
DeriveMergeRefFields(self, fb, i) ==
  IF i > Len(self) THEN RefOk(Struct(self))
  ELSE IF self[i].skip THEN DeriveMergeRefFields(self, fb, i + 1)
  ELSE LET m == with_value(MergeRef(self[i].v, fb[i].v), FieldLabel(self[i].label))
           after == [self EXCEPT ![i].v = m.self] IN
       IF m.ok THEN DeriveMergeRefFields(after, fb, i + 1)
       ELSE RefErr(Struct(after), m.err)

DeriveMergeRef(a, b) ==
  IF a.x = 1 THEN RefOk(a) ELSE DeriveMergeRefFields(a.v, b.v, 1)

\* <T as Merge>::merge_ref, dispatched on the type of the receiver
MergeRef(a, b) ==
  CASE a.t \in UnmergeableTypes -> UnmergeableMergeRef(a, b)
    [] a.t = "unit" -> UnitMergeRef(a, b)
    [] a.t = "Merged" -> MergedMergeRef(a, b)
    [] a.t = "Option" -> OptionMergeRef(a, b)
    [] a.t = "Box" -> BoxMergeRef(a, b)
    [] a.t = "Vec" -> VecMergeRef(a, b)
    [] a.t = "BTreeSet" -> BTreeSetMergeRef(a, b)
    [] a.t = "BTreeMap" -> BTreeMapMergeRef(a, b)
    [] a.t = "First" -> FirstMergeRef(a, b)
    [] a.t = "Last" -> LastMergeRef(a, b)
    [] a.t = "NoMerge" -> NoMergeMergeRef(a, b)
    [] a.t = "Overridable" -> OverridableMergeRef(a, b)
    [] a.t = "Ordered" -> OrderedMergeRef(a, b)
    [] a.t = "Lines" -> LinesMergeRef(a, b)
    [] a.t = "Struct" -> DeriveMergeRef(a, b)

\* <T as Merge>::merge: the type's own merge where it has one, else the default
Merge(a, b) ==
  CASE a.t \in UnmergeableTypes -> UnmergeableMerge(a, b)
    [] a.t = "unit" -> UnitMerge(a, b)
    [] a.t = "NoMerge" -> NoMergeMerge(a, b)
    [] a.t = "Struct" -> DeriveMerge(a, b)
    [] OTHER -> DefaultMerge(a, b)


(***************************************************************************)
(* The operands the model draws, by type.                                  *)
(***************************************************************************)
SeqsUpTo(S, n) == UNION {[1..k -> S] : k \in 0..n}

Elems == {1, 2}

Priorities == 1..MaxPrio

Keys == 1..MaxKey

MapsTo(S) == UNION {[D -> S] : D \in SUBSET Keys}

ShortVecs == {Vec(s) : s \in SeqsUpTo(Elems, 1)}

OptionI32s == {None} \cup {Some(Int32(n)) : n \in Elems}

\* struct Config { #[merge(skip)] a: Merged, b: Vec<i32>, #[merge(rename = "foo")] c: Option<i32> }
Configs ==
  {Struct(<<Field("a", "a", TRUE, fa), Field("b", "b", FALSE, fb), Field("c", "foo", FALSE, fc)>>) :
     fa \in {Merged(FALSE), Merged(TRUE)}, fb \in ShortVecs, fc \in OptionI32s}

\* struct Outer { settings: Inner }, struct Inner { count: Option<i32> }
Outers ==
  {Struct(<<Field("settings", "settings", FALSE,
                  Struct(<<Field("count", "count", FALSE, fc)>>))>>) : fc \in OptionI32s}

\* struct Inner { count: Option<i32> }, as a map value
Inners == {Struct(<<Field("count", "count", FALSE, fc)>>) : fc \in OptionI32s}

\* struct Record { #[merge(skip)] id: i32, first: Inner, seen: Merged,
\*                 #[merge(rename = "2nd")] second: Option<i32> }
Records ==
  {Struct(<<Field("id", "id", TRUE, fi), Field("first", "first", FALSE, ff),
            Field("seen", "seen", FALSE, fs), Field("second", "2nd", FALSE, fc)>>) :
     fi \in {Int32(n) : n \in Elems}, ff \in Inners,
     fs \in {Merged(FALSE), Merged(TRUE)}, fc \in OptionI32s}

TypeNames ==
  {"i32", "String", "unit", "Merged", "Option<i32>", "Option<Vec>", "Box",
   "Vec", "BTreeSet", "BTreeMap<Option<i32>>", "BTreeMap<i32>", "BTreeMap<Vec>",
   "BTreeMap<Inner>", "First", "Last",
   "NoMerge", "Overridable", "Ordered", "Lines", "Config", "Outer", "Record", "UnitStruct"}

ValuesOf(ty) ==
  CASE ty = "i32" -> {Int32(n) : n \in Elems}
    [] ty = "String" -> {Str(c) : c \in {"a", "b"}}
    [] ty = "unit" -> {Unit}
    [] ty = "Merged" -> {Merged(FALSE), Merged(TRUE)}
    [] ty = "Option<i32>" -> OptionI32s
    [] ty = "Option<Vec>" -> {None} \cup {Some(x) : x \in ShortVecs}
    [] ty = "Box" -> {Box(x) : x \in OptionI32s}
    [] ty = "Vec" -> {Vec(s) : s \in SeqsUpTo(Elems, MaxLen)}
    [] ty = "ShortVec" -> ShortVecs
    [] ty = "BTreeSet" -> {BTreeSet(S) : S \in SUBSET Elems}
    [] ty = "BTreeMap<Option<i32>>" -> {BTreeMap(f) : f \in MapsTo({None, Some(Int32(1))})}
    [] ty = "BTreeMap<i32>" -> {BTreeMap(f) : f \in MapsTo({Int32(1)})}
    [] ty = "BTreeMap<Vec>" -> {BTreeMap(f) : f \in MapsTo(ShortVecs)}
    [] ty = "BTreeMap<Inner>" -> {BTreeMap(f) : f \in MapsTo(Inners)}
    [] ty = "First" -> {First(Int32(n)) : n \in Elems}
    [] ty = "Last" -> {Last(Int32(n)) : n \in Elems}
    [] ty = "NoMerge" -> {NoMerge(x) : x \in ShortVecs}
    [] ty = "Overridable" -> {Overridable(Vec(<<n>>), p) : n \in Elems, p \in Priorities}
    [] ty = "Ordered" -> {Ordered(x, o) : x \in ShortVecs, o \in {"Before", "After"}}
    [] ty = "Lines" -> {Lines(s) : s \in SeqsUpTo({"a", "\n"}, MaxLen)}
    [] ty = "Config" -> Configs
    [] ty = "Outer" -> Outers
    [] ty = "Record" -> Records
    [] ty = "UnitStruct" -> {UnitStruct}

(***************************************************************************)
(* State.                                                                  *)
(***************************************************************************)
VARIABLES
  a, b,          \* SpecMerge: the two operands
  res,           \* SpecMerge: the result of a.merge(b)
  resBA,         \* SpecMerge: the result of b.merge(a)
  resRef,        \* SpecMerge: the outcome of a.merge_ref(b)
  done,          \* SpecMerge: the calls made so far
  cellTy,        \* SpecCell: the item type T of the MergeCell<T>
  created,       \* SpecCell: <<>> after MergeCell::empty(), <<v>> after MergeCell::new(v)
  cell,          \* SpecCell: the MergeCell, [value, result]
  fed,           \* SpecCell: the values passed to MergeCell::merge, in order
  attempts,      \* SpecCell: how many times the cell called merge_ref
  cellOut,       \* SpecCell: what finish / try_finish returned
  files,         \* SpecFile: what the format adapter finds at each path, once parsed
  evaluated,     \* SpecFile: File.evaluated, the canonical paths marked visited
  value,         \* SpecFile: File.value, <<>> for None and <<v>> for Some(v)
  stack,         \* SpecFile: the active _read calls, [path, todo]; the innermost is last
  fpc,           \* SpecFile: "idle", "running", "unwinding" (an error propagates) or "finished"
  ferr,          \* SpecFile: the error being propagated, as built so far
  requests,      \* SpecFile: the paths given to the top-level read calls, in order
  results,       \* SpecFile: what each top-level read call returned, in order
  parsed,        \* SpecFile: the canonical paths handed to Format::read, in order
  inCall,        \* SpecFile: those handed to it by the current call of file.read
  readOk,        \* SpecFile: whether some call of File::read (nested or not) returned Ok
  raised,        \* SpecFile: where the last error was raised: the calls active and the module entered
  fout           \* SpecFile: what File::finish returned, <<>> before the call

mvars == <<a, b, res, resBA, resRef, done>>

cvars == <<cellTy, created, cell, fed, attempts, cellOut>>

fvars == <<files, evaluated, value, stack, fpc, ferr, requests, results, parsed, inCall, readOk, raised, fout>>

vars == <<mvars, cvars, fvars>>

(***************************************************************************)
(* SpecMerge: one pair of operands of one type, merged by each form.       *)
(***************************************************************************)
NotCalled == Err(NoErr)

RefNotCalled == RefErr(Unit, NoErr)

MergeIdle ==
  /\ a = Unit /\ b = Unit
  /\ res = NotCalled /\ resBA = NotCalled /\ resRef = RefNotCalled
  /\ done = {}

OkUnit == [ok |-> TRUE, err |-> NoErr]

\* MergeCell::empty()
CellEmpty == [value |-> <<>>, result |-> OkUnit]

\* MergeCell::new(value)
CellNew(v) == [value |-> <<v>>, result |-> OkUnit]

NoCall == [call |-> "none", panicked |-> FALSE, ret |-> <<>>]

CellIdle ==
  /\ cellTy = "unit" /\ created = <<>> /\ cell = CellEmpty
  /\ fed = <<>> /\ attempts = 0 /\ cellOut = NoCall

(***************************************************************************)
(* The file system of SpecFile.  Two directories, "/" and its child "/s",  *)
(* each holding the files named 1..NumNames.  A canonical path is          *)
(* <<directory, name>>.  An import (and the argument of a top-level read)  *)
(* is a relative path [dir, name]: dir "." stays in the base directory,    *)
(* dir "s" descends into its child s; name 0 is a file that does not       *)
(* exist.                                                                  *)
(***************************************************************************)
Names == 1..NumNames

Files == {"/", "/s"} \X Names

Entries == {[dir |-> d, name |-> n] : d \in {".", "s"}, n \in Names} \cup {[dir |-> ".", name |-> 0]}

\* the working directory, against which the argument of a top-level read resolves
Cwd == "/"

\* Path::join followed by fs::canonicalize: <<path>>, or <<>> when it fails
canonicalize(base, entry) ==
  LET dir == IF entry.dir = "." THEN base
             ELSE IF base = "/" THEN "/s" ELSE "/s/s" IN
  IF <<dir, entry.name>> \in Files THEN <<<<dir, entry.name>>>> ELSE <<>>

\* Path::parent of a canonical file path
parent(path) == path[1]

\* what Format::read finds at a path: whether it parses, the imports it
\* declares and whether the module sets `key`
Unknown == [known |-> FALSE, parses |-> FALSE, imports |-> <<>>, key |-> FALSE]

\* struct Simple { key: Option<String>, items: Vec<_>, y: Option<Last<_>> }:
\* a module lists itself in `items`, sets `y` to itself and may set `key`
ModuleValue(path, content) ==
  Struct(<<Field("key", "key", FALSE, IF content.key THEN Some(Str(path)) ELSE None),
           Field("items", "items", FALSE, Vec(<<path>>)),
           Field("y", "y", FALSE, Some(Last(path)))>>)

\* no error raised yet
NotRaised == [callers |-> <<>>, module |-> <<>>]

FileIdle ==
  /\ files = [f \in Files |-> Unknown]
  /\ evaluated = {} /\ value = <<>> /\ stack = <<>>
  /\ fpc = "idle" /\ ferr = NoErr
  /\ requests = <<>> /\ results = <<>> /\ parsed = <<>> /\ inCall = <<>>
  /\ readOk = FALSE /\ fout = <<>>
  /\ raised = NotRaised

InitMerge ==
  /\ \E ty \in TypeNames : a \in ValuesOf(ty) /\ b \in ValuesOf(ty)
  /\ res = NotCalled /\ resBA = NotCalled /\ resRef = RefNotCalled
  /\ done = {}
  /\ CellIdle
  /\ FileIdle

\* a.merge(b)
CallMerge ==
  /\ "merge" \notin done
  /\ res' = Merge(a, b)
  /\ done' = done \cup {"merge"}
  /\ UNCHANGED <<a, b, resBA, resRef, cvars, fvars>>

\* b.merge(a)
CallMergeSwapped ==
  /\ "merge_swapped" \notin done
  /\ resBA' = Merge(b, a)
  /\ done' = done \cup {"merge_swapped"}
  /\ UNCHANGED <<a, b, res, resRef, cvars, fvars>>

\* a.merge_ref(b)
CallMergeRef ==
  /\ "merge_ref" \notin done
  /\ resRef' = MergeRef(a, b)
  /\ done' = done \cup {"merge_ref"}
  /\ UNCHANGED <<a, b, res, resBA, cvars, fvars>>

NextMerge == CallMerge \/ CallMergeSwapped \/ CallMergeRef

SpecMerge == InitMerge /\ [][NextMerge]_vars


(***************************************************************************)
(* SpecCell: a MergeCell<T> is created, fed values and finished.           *)
(***************************************************************************)
\* MergeCell::is_empty
is_empty(c) == c.value = <<>>

\* MergeCell::has_errored
has_errored(c) == ~c.result.ok

\* MergeCell::try_finish: None for an empty cell, else the result mapped to the value
try_finish(c) ==
  IF c.value = <<>> THEN <<>>
  ELSE IF c.result.ok THEN <<Ok(c.value[1])>> ELSE <<Err(c.result.err)>>

\* whether MergeCell::merge reaches value.merge_ref(other): the closure of and_then
CallsMergeRef(c) == c.value # <<>> /\ c.result.ok

\* mutant: the cell merges into the value even after an earlier merge failed
CellMerge_KeepsMerging(c, other) ==
  IF c.value # <<>>
    THEN LET m == MergeRef(c.value[1], other) IN
         [value |-> <<m.self>>, result |-> [ok |-> m.ok, err |-> m.err]]
    ELSE [c EXCEPT !.value = <<other>>]

\* mutant: the cell merges the held value into the fed one (a right-to-left fold)
CellMerge_Reversed(c, other) ==
  IF c.value # <<>>
    THEN IF c.result.ok
           THEN LET m == MergeRef(other, c.value[1]) IN
                [value |-> <<m.self>>, result |-> [ok |-> m.ok, err |-> m.err]]
           ELSE c
    ELSE [c EXCEPT !.value = <<other>>]

\* MergeCell::merge
CellMerge(c, other) ==
  IF c.value # <<>>
    THEN IF c.result.ok
           THEN LET m == MergeRef(c.value[1], other) IN
                [value |-> <<m.self>>, result |-> [ok |-> m.ok, err |-> m.err]]
           ELSE c
    ELSE [c EXCEPT !.value = <<other>>]

\* the loop of IteratorExt::try_merge: cell.merge(item) for each item
RECURSIVE FeedAll(_, _)
FeedAll(c, items) ==
  IF items = <<>> THEN c ELSE FeedAll(CellMerge(c, Head(items)), Tail(items))

\* the merge_ref calls made while feeding items to c
RECURSIVE CountMergeRef(_, _)
CountMergeRef(c, items) ==
  IF items = <<>> THEN 0
  ELSE (IF CallsMergeRef(c) THEN 1 ELSE 0) + CountMergeRef(CellMerge(c, Head(items)), Tail(items))

\* IteratorExt::try_merge
try_merge(items) == try_finish(FeedAll(CellEmpty, items))

\* the item types of the cells the model creates
CellTypes == {"Overridable", "ShortVec", "BTreeMap<i32>", "Last", "First"}

InitCell ==
  /\ cellTy \in CellTypes
  /\ created \in {<<>>} \cup {<<v>> : v \in ValuesOf(cellTy)}
  /\ cell = (IF created = <<>> THEN CellEmpty ELSE CellNew(created[1]))
  /\ fed = <<>> /\ attempts = 0 /\ cellOut = NoCall
  /\ MergeIdle
  /\ FileIdle

\* cell.merge(other)
Feed(other) ==
  /\ cellOut.call = "none"
  /\ Len(fed) < MaxFeeds
  /\ cell' = CellMerge(cell, other)
  /\ fed' = Append(fed, other)
  /\ attempts' = attempts + (IF CallsMergeRef(cell) THEN 1 ELSE 0)
  /\ UNCHANGED <<cellTy, created, cellOut, mvars, fvars>>

\* cell.try_finish()
TryFinish ==
  /\ cellOut.call = "none"
  /\ cellOut' = [call |-> "try_finish", panicked |-> FALSE, ret |-> try_finish(cell)]
  /\ UNCHANGED <<cellTy, created, cell, fed, attempts, mvars, fvars>>

\* cell.finish(): try_finish().expect(..) panics on an empty cell
Finish ==
  /\ cellOut.call = "none"
  /\ cellOut' = [call |-> "finish", panicked |-> is_empty(cell), ret |-> try_finish(cell)]
  /\ UNCHANGED <<cellTy, created, cell, fed, attempts, mvars, fvars>>

\* items.into_iter().try_merge() on a fresh empty cell
IterTryMerge(items) ==
  /\ cellOut.call = "none" /\ created = <<>> /\ fed = <<>>
  /\ cell' = FeedAll(CellEmpty, items)
  /\ fed' = items
  /\ attempts' = CountMergeRef(CellEmpty, items)
  /\ cellOut' = [call |-> "try_merge", panicked |-> FALSE, ret |-> try_merge(items)]
  /\ UNCHANGED <<cellTy, created, mvars, fvars>>

NextCell ==
  \/ \E other \in ValuesOf(cellTy) : Feed(other)
  \/ TryFinish
  \/ Finish
  \/ /\ is_empty(cell) /\ fed = <<>>
     /\ \E items \in SeqsUpTo(ValuesOf(cellTy), MaxFeeds) : IterTryMerge(items)

SpecCell == InitCell /\ [][NextCell]_vars

(***************************************************************************)
(* SpecFile: a File evaluator.  File::read recurses through the imports;   *)
(* the model keeps the active calls on a stack and takes one step per call *)
(* entered, per call returned and per level an error climbs.               *)
(***************************************************************************)
\* the imports declared by the modules parsed so far
RECURSIVE EdgesIn(_, _)
EdgesIn(fs, S) ==
  IF S = {} THEN 0
  ELSE LET f == CHOOSE x \in S : TRUE IN Len(fs[f].imports) + EdgesIn(fs, S \ {f})

\* what Format::read may return for a path: its content is fixed once parsed
Contents(path) ==
  IF files[path].known THEN {files[path]}
  ELSE LET room == MaxEdges - EdgesIn(files, Files)
           most == IF room < MaxImports THEN room ELSE MaxImports IN
       {[known |-> TRUE, parses |-> FALSE, imports |-> <<>>, key |-> FALSE]}
       \cup {[known |-> TRUE, parses |-> TRUE, imports |-> i, key |-> k] :
               i \in SeqsUpTo(Entries, most), k \in BOOLEAN}

\* mutant: the path is never marked visited
_read_NeverMarks(ev, val, path, content) ==
  IF path \in ev
    THEN [evaluated |-> ev, value |-> val, ok |-> FALSE, err |-> cycle]
  ELSE IF ~content.parses
    THEN [evaluated |-> ev, value |-> val, ok |-> FALSE, err |-> custom]
  ELSE IF val = <<>>
    THEN [evaluated |-> ev, value |-> <<ModuleValue(path, content)>>,
          ok |-> TRUE, err |-> NoErr]
  ELSE LET m == MergeRef(val[1], ModuleValue(path, content)) IN
       [evaluated |-> ev, value |-> <<m.self>>, ok |-> m.ok, err |-> m.err]

\* mutant: the path is marked visited before the module is parsed
_read_InsertsFirst(ev, val, path, content) ==
  IF path \in ev
    THEN [evaluated |-> ev, value |-> val, ok |-> FALSE, err |-> cycle]
  ELSE IF ~content.parses
    THEN [evaluated |-> ev \cup {path}, value |-> val, ok |-> FALSE, err |-> custom]
  ELSE IF val = <<>>
    THEN [evaluated |-> ev \cup {path}, value |-> <<ModuleValue(path, content)>>,
          ok |-> TRUE, err |-> NoErr]
  ELSE LET m == MergeRef(val[1], ModuleValue(path, content)) IN
       IF m.ok
         THEN [evaluated |-> ev \cup {path}, value |-> <<m.self>>, ok |-> TRUE, err |-> NoErr]
         ELSE [evaluated |-> ev \cup {path}, value |-> <<m.self>>, ok |-> FALSE, err |-> m.err]

\* mutant: a path already visited is skipped silently instead of raising Cycle
_read_SkipsVisited(ev, val, path, content) ==
  IF path \in ev
    THEN [evaluated |-> ev, value |-> val, ok |-> TRUE, err |-> NoErr]
  ELSE IF ~content.parses
    THEN [evaluated |-> ev, value |-> val, ok |-> FALSE, err |-> custom]
  ELSE IF val = <<>>
    THEN [evaluated |-> ev \cup {path}, value |-> <<ModuleValue(path, content)>>,
          ok |-> TRUE, err |-> NoErr]
  ELSE LET m == MergeRef(val[1], ModuleValue(path, content)) IN
       IF m.ok
         THEN [evaluated |-> ev \cup {path}, value |-> <<m.self>>, ok |-> TRUE, err |-> NoErr]
         ELSE [evaluated |-> ev, value |-> <<m.self>>, ok |-> FALSE, err |-> m.err]

\* File::_read up to the recursion into the imports: the cycle check, the
\* parse, the merge into self.value and the insert into self.evaluated.
\* Gives the evaluator after the call and Ok or the error raised.
_read(ev, val, path, content) ==
  IF path \in ev
    THEN [evaluated |-> ev, value |-> val, ok |-> FALSE, err |-> cycle]
  ELSE IF ~content.parses
    THEN [evaluated |-> ev, value |-> val, ok |-> FALSE, err |-> custom]
  ELSE IF val = <<>>
    THEN [evaluated |-> ev \cup {path}, value |-> <<ModuleValue(path, content)>>,
          ok |-> TRUE, err |-> NoErr]
  ELSE LET m == MergeRef(val[1], ModuleValue(path, content)) IN
       IF m.ok
         THEN [evaluated |-> ev \cup {path}, value |-> <<m.self>>, ok |-> TRUE, err |-> NoErr]
         ELSE [evaluated |-> ev, value |-> <<m.self>>, ok |-> FALSE, err |-> m.err]

\* File::read(join(base, entry)) entered with the calls in stk active:
\* canonicalize, then _read(..).with_module(path).  A success leaves the new
\* call on the stack with its imports to do; an error starts to propagate.
EnterRead(base, entry, stk) ==
  LET c == canonicalize(base, entry)
      reads == c # <<>> /\ c[1] \notin evaluated IN
  \E content \in (IF reads THEN Contents(c[1]) ELSE {Unknown}) :
    LET o == IF c = <<>>
               THEN [evaluated |-> evaluated, value |-> value, ok |-> FALSE, err |-> custom]
               ELSE with_module(_read(evaluated, value, c[1], content), c[1]) IN
    /\ files' = IF reads THEN [files EXCEPT ![c[1]] = content] ELSE files
    /\ parsed' = IF reads THEN Append(parsed, c[1]) ELSE parsed
    /\ inCall' = (IF stk = <<>> THEN <<>> ELSE inCall) \o (IF reads THEN c ELSE <<>>)
    /\ evaluated' = o.evaluated
    /\ value' = o.value
    /\ IF o.ok
         THEN /\ stack' = Append(stk, [path |-> c[1], todo |-> content.imports])
              /\ fpc' = "running"
              /\ ferr' = NoErr
              /\ results' = results
              /\ raised' = raised
         ELSE /\ stack' = stk
              /\ raised' = [callers |-> [i \in 1..Len(stk) |-> stk[i].path], module |-> c]
              /\ ferr' = o.err
              /\ fpc' = IF stk = <<>> THEN "idle" ELSE "unwinding"
              /\ results' = IF stk = <<>> THEN Append(results, [ok |-> FALSE, err |-> o.err])
                            ELSE results

InitFile ==
  /\ FileIdle
  /\ MergeIdle
  /\ CellIdle

\* file.read(path), called by the user of the evaluator
Read(entry) ==
  /\ fpc = "idle"
  /\ Len(requests) < MaxReads
  /\ requests' = Append(requests, entry)
  /\ EnterRead(Cwd, entry, <<>>)
  /\ UNCHANGED <<readOk, fout, mvars, cvars>>

\* mutant: an import is resolved against the working directory
Import_FromCwd ==
  /\ fpc = "running"
  /\ stack[Len(stack)].todo # <<>>
  /\ LET top == stack[Len(stack)] IN
     EnterRead(Cwd, Head(top.todo),
               [stack EXCEPT ![Len(stack)].todo = Tail(top.todo)])
  /\ UNCHANGED <<requests, readOk, fout, mvars, cvars>>

\* mutant: the imports are read from the last declared to the first
Import_LastFirst ==
  /\ fpc = "running"
  /\ stack[Len(stack)].todo # <<>>
  /\ LET top == stack[Len(stack)]
         n == Len(top.todo) IN
     EnterRead(parent(top.path), top.todo[n],
               [stack EXCEPT ![Len(stack)].todo = SubSeq(top.todo, 1, n - 1)])
  /\ UNCHANGED <<requests, readOk, fout, mvars, cvars>>

\* try_for_each: the innermost call reads its next import
Import ==
  /\ fpc = "running"
  /\ stack[Len(stack)].todo # <<>>
  /\ LET top == stack[Len(stack)] IN
     EnterRead(parent(top.path), Head(top.todo),
               [stack EXCEPT ![Len(stack)].todo = Tail(top.todo)])
  /\ UNCHANGED <<requests, readOk, fout, mvars, cvars>>

\* the innermost call has read all its imports and returns Ok
Return ==
  /\ fpc = "running"
  /\ stack[Len(stack)].todo = <<>>
  /\ stack' = SubSeq(stack, 1, Len(stack) - 1)
  /\ readOk' = TRUE
  /\ fpc' = IF Len(stack) = 1 THEN "idle" ELSE "running"
  /\ results' = IF Len(stack) = 1 THEN Append(results, [ok |-> TRUE, err |-> NoErr]) ELSE results
  /\ UNCHANGED <<files, evaluated, value, ferr, requests, parsed, inCall, raised, fout, mvars, cvars>>

\* mutant: the caller drops the error of an import and goes on with the next
Unwind_Resumes ==
  /\ fpc = "unwinding"
  /\ ferr' = NoErr
  /\ fpc' = "running"
  /\ UNCHANGED <<files, evaluated, value, stack, results, requests, parsed, inCall, readOk, raised, fout, mvars, cvars>>

\* an error leaves the innermost call: `?` drops its remaining imports and
\* with_module adds the module's path
Unwind ==
  /\ fpc = "unwinding"
  /\ LET top == stack[Len(stack)]
         e == [ferr EXCEPT !.modules = TraceAdd(@, top.path)] IN
     /\ ferr' = e
     /\ stack' = SubSeq(stack, 1, Len(stack) - 1)
     /\ fpc' = IF Len(stack) = 1 THEN "idle" ELSE "unwinding"
     /\ results' = IF Len(stack) = 1 THEN Append(results, [ok |-> FALSE, err |-> e]) ELSE results
  /\ UNCHANGED <<files, evaluated, value, requests, parsed, inCall, readOk, raised, fout, mvars, cvars>>

\* file.finish()
FileFinish ==
  /\ fpc = "idle"
  /\ fout' = <<value>>
  /\ fpc' = "finished"
  /\ UNCHANGED <<files, evaluated, value, stack, ferr, requests, results, parsed, inCall, readOk, raised, mvars, cvars>>

NextFile ==
  \/ \E entry \in Entries : Read(entry)
  \/ Import
  \/ Return
  \/ Unwind
  \/ FileFinish

\* a call of file.read in progress runs on: the code is sequential and
\* every step of it (the next import, a return, a `?`) is taken
FileFairness == WF_vars(Import) /\ WF_vars(Return) /\ WF_vars(Unwind)

SpecFile == InitFile /\ [][NextFile]_vars

\* the evaluator whose calls in progress run to their return
SpecFileLive == InitFile /\ [][NextFile]_vars /\ FileFairness

(***************************************************************************)
(* Properties of merge and merge_ref (SpecMerge).                          *)
(***************************************************************************)
\* the operand whose priority is numerically lower
LowerPriority(x, y) == IF x.x < y.x THEN x ELSE y

\* C1: for two Overridable values with distinct priorities, a.merge(b) and
\* b.merge(a) both succeed and both return the operand with the numerically
\* lower priority, inner value and priority unaltered.
C1_OverrideCommutes ==
  (a.t = "Overridable" /\ a.x # b.x) =>
    /\ "merge" \in done => res = Ok(LowerPriority(a, b))
    /\ "merge_swapped" \in done => resBA = Ok(LowerPriority(a, b))

\* other has the lower priority and wins in both operand orders
C1_Witness ==
  /\ a.t = "Overridable" /\ b.x < a.x /\ a.v # b.v
  /\ {"merge", "merge_swapped"} \subseteq done
  /\ res = Ok(b) /\ resBA = Ok(b)

\* C2: two Overridable values of equal priority never merge: both operand
\* orders and both forms fail with a Collision, whatever the inner values.
C2_TieCollides ==
  (a.t = "Overridable" /\ a.x = b.x) =>
    /\ "merge" \in done => (~res.ok /\ res.err.kind = "Collision")
    /\ "merge_swapped" \in done => (~resBA.ok /\ resBA.err.kind = "Collision")
    /\ "merge_ref" \in done => (~resRef.ok /\ resRef.err.kind = "Collision")

\* equal priorities and equal inner values still collide
C2_Witness ==
  /\ a.t = "Overridable" /\ a = b
  /\ done = {"merge", "merge_swapped", "merge_ref"}
  /\ res.err.kind = "Collision" /\ resBA.err.kind = "Collision"

\* C7: a.merge(b) returns Ok(r) exactly when a.merge_ref(b) returns Ok and
\* leaves the receiver equal to r; otherwise both fail with the same error
\* kind and the same value trace.
C7_FormsAgree ==
  {"merge", "merge_ref"} \subseteq done =>
    IF res.ok
      THEN resRef.ok /\ resRef.self = res.v[1]
      ELSE /\ ~resRef.ok
           /\ resRef.err.kind = res.err.kind
           /\ resRef.err.value = res.err.value

\* a derived struct with a skipped field, merged successfully by both forms
\* although other's skipped field differs
C7_Witness ==
  /\ a.t = "Struct" /\ a.x = 0 /\ Len(a.v) = 3
  /\ a.v[1].v # b.v[1].v
  /\ {"merge", "merge_ref"} \subseteq done
  /\ res.ok /\ resRef.ok /\ resRef.self = res.v[1]


\* the keys both maps hold
Shared(x, y) == (DOMAIN x.v) \cap (DOMAIN y.v)

\* a map m is the union of the maps a and b, shared keys merged with a's
\* value as the receiver
IsMapUnion(m, x, y) ==
  /\ DOMAIN m.v = (DOMAIN x.v) \cup (DOMAIN y.v)
  /\ \A k \in DOMAIN m.v :
       IF k \in Shared(x, y) THEN Merge(x.v[k], y.v[k]) = Ok(m.v[k])
       ELSE IF k \in DOMAIN x.v THEN m.v[k] = x.v[k]
       ELSE m.v[k] = y.v[k]

\* C12: a merge of two maps that succeeds yields the union of the key sets;
\* a key of one operand only keeps its value, a key of both holds
\* merge(self's value, other's value).
C12_MapUnion ==
  a.t = "BTreeMap" =>
    /\ ("merge" \in done /\ res.ok) => IsMapUnion(res.v[1], a, b)
    /\ ("merge_swapped" \in done /\ resBA.ok) => IsMapUnion(resBA.v[1], b, a)
    /\ ("merge_ref" \in done /\ resRef.ok) => IsMapUnion(resRef.self, a, b)

\* {1: [1], 2: [2]} merged with {1: [2]}: key 1 holds self's list then other's
C12_Witness ==
  /\ a.t = "BTreeMap" /\ DOMAIN a.v = {1, 2} /\ DOMAIN b.v = {1}
  /\ a.v[1].t = "Vec" /\ a.v[1].v = <<1>> /\ a.v[2].v = <<2>> /\ b.v[1].v = <<2>>
  /\ "merge" \in done /\ res.ok
  /\ DOMAIN res.v[1].v = {1, 2}
  /\ res.v[1].v[1] = Vec(<<1, 2>>) /\ res.v[1].v[2] = Vec(<<2>>)

\* a failed map merge reports a shared key whose values do not merge: the
\* kind of their error, and the key's label at position At(trace) of the trace
KeyReported(e, x, y, At(_)) ==
  \E k \in Shared(x, y) :
    LET inner == Merge(x.v[k], y.v[k]) IN
    /\ ~inner.ok
    /\ e.kind = inner.err.kind
    /\ e.value # <<>>
    /\ e.value[At(e.value)] = KeyLabel(k)

\* a failed map merge reports a shared key whose values do not merge: their
\* error with the key's label pushed on its value trace
KeyPushed(e, x, y) ==
  \E k \in Shared(x, y) :
    LET inner == Merge(x.v[k], y.v[k]) IN
    /\ ~inner.ok
    /\ e.kind = inner.err.kind
    /\ e.value = <<KeyLabel(k)>> \o inner.err.value

\* C13, the claim as written: the label of the failing key is the innermost
\* component of the value trace, the one Value::components yields last.
C13_KeyInnermost ==
  a.t = "BTreeMap" =>
    /\ ("merge" \in done /\ ~res.ok) => KeyReported(res.err, a, b, Len)
    /\ ("merge_ref" \in done /\ ~resRef.ok) => KeyReported(resRef.err, a, b, Len)

\* C13, amended: the map merge fails with the inner error's kind and the
\* value trace is the key's label followed by the labels added inside the
\* merge of the two values; the key is the innermost component only when the
\* merge of the values adds no label.
C13_KeyPushed ==
  a.t = "BTreeMap" =>
    /\ ("merge" \in done /\ ~res.ok) => KeyPushed(res.err, a, b)
    /\ ("merge_swapped" \in done /\ ~resBA.ok) => KeyPushed(resBA.err, b, a)
    /\ ("merge_ref" \in done /\ ~resRef.ok) => KeyPushed(resRef.err, a, b)

\* two maps of records collide in field count of key 2: trace "2".count
C13_Witness ==
  /\ a.t = "BTreeMap" /\ a = b /\ DOMAIN a.v = {1, 2}
  /\ a.v[1].t = "Struct" /\ a.v[1].v[1].v = None /\ a.v[2].v[1].v = Some(Int32(1))
  /\ done = {"merge", "merge_swapped", "merge_ref"}
  /\ ~res.ok /\ res.err.kind = "Collision"
  /\ res.err.value = <<KeyLabel(2), FieldLabel("count")>>
  /\ resRef.err = res.err


\* what merge of two optional values must return
OptionMerged(x, y) ==
  IF x.v = <<>> THEN Ok(y)
  ELSE IF y.v = <<>> THEN Ok(x)
  ELSE LET m == Merge(x.v[1], y.v[1]) IN
       IF m.ok THEN Ok(Some(m.v[1])) ELSE Err(m.err)

\* C14: for optional values absent is the identity of merge on both sides
\* and merge(None, None) is None, all without error; two present values
\* merge to Some of the merge of the inner values, or fail with its error.
C14_OptionIdentity ==
  a.t = "Option" =>
    /\ "merge" \in done => res = OptionMerged(a, b)
    /\ "merge_swapped" \in done => resBA = OptionMerged(b, a)
    /\ "merge_ref" \in done =>
         /\ resRef.ok = OptionMerged(a, b).ok
         /\ resRef.err = OptionMerged(a, b).err
         /\ resRef.ok => resRef.self = OptionMerged(a, b).v[1]

\* None merged with Some([1]) in both operand orders, and by merge_ref
C14_Witness ==
  /\ a.t = "Option" /\ a.v = <<>> /\ b.v # <<>> /\ b.v[1].t = "Vec" /\ b.v[1].v = <<1>>
  /\ done = {"merge", "merge_swapped", "merge_ref"}
  /\ res = Ok(b) /\ resBA = Ok(b) /\ resRef = RefOk(b)

\* C16: two values of an unmergeable type never merge: every pair, two equal
\* values included, fails with Collision through merge and through
\* merge_ref, and merge_ref leaves the receiver as it was.
C16_UnmergeableCollides ==
  a.t \in UnmergeableTypes =>
    /\ "merge" \in done => res = Err(collision)
    /\ "merge_swapped" \in done => resBA = Err(collision)
    /\ "merge_ref" \in done => resRef = RefErr(a, collision)

\* two equal strings collide through both forms
C16_Witness ==
  /\ a.t = "String" /\ a = b
  /\ done = {"merge", "merge_swapped", "merge_ref"}
  /\ ~res.ok /\ res.err.kind = "Collision"
  /\ ~resRef.ok /\ resRef.err.kind = "Collision"


\* the fields of a record that take part in the derived merge
Merging(x) == {i \in 1..Len(x.v) : ~x.v[i].skip}

\* the fields whose own merge fails
Failing(x, y) == {i \in Merging(x) : ~Merge(x.v[i].v, y.v[i].v).ok}

\* the first of them in declaration order
FirstFailing(x, y) == CHOOSE i \in Failing(x, y) : \A j \in Failing(x, y) : i <= j

\* the error of the first failing field under the field's label
FieldError(x, y) ==
  LET i == FirstFailing(x, y)
      inner == Merge(x.v[i].v, y.v[i].v).err IN
  [inner EXCEPT !.value = <<FieldLabel(x.v[i].label)>> \o inner.value]

\* C17: the derived merge goes through the fields in declaration order and
\* stops at the first field whose merge fails: the fields before it are
\* merged, no later field is, and the error is that field's error with the
\* field's label (its rename when given) pushed on the value trace after the
\* labels added inside the field, so the trace reads from the record down
\* to the failing leaf.
C17_DeriveStopsAtFirst ==
  (a.t = "Struct" /\ a.x = 0 /\ Failing(a, b) # {}) =>
    /\ "merge" \in done => res = Err(FieldError(a, b))
    /\ "merge_ref" \in done =>
         /\ ~resRef.ok
         /\ resRef.err = FieldError(a, b)
         /\ \A i \in Merging(a) :
              /\ i < FirstFailing(a, b) => Ok(resRef.self.v[i].v) = Merge(a.v[i].v, b.v[i].v)
              /\ i > FirstFailing(a, b) => resRef.self.v[i] = a.v[i]

\* both `first` and `second` of a Record would fail: the error is
\* first.count and `seen` is left unmerged
C17_Witness ==
  /\ a.t = "Struct" /\ a.x = 0 /\ Len(a.v) = 4
  /\ Failing(a, b) = {2, 4}
  /\ a.v[3].v = Merged(FALSE)
  /\ done = {"merge", "merge_swapped", "merge_ref"}
  /\ res.err.value = <<FieldLabel("first"), FieldLabel("count")>>
  /\ resRef.err.value = <<FieldLabel("first"), FieldLabel("count")>>
  /\ resRef.self.v[3].v = Merged(FALSE)

\* C18: a field marked skip takes no part in the derived merge: after merge
\* and after merge_ref it holds self's original value whatever other holds,
\* its own merge is not called, and it never makes the merge of the record fail.
C18_SkipKeepsSelf ==
  (a.t = "Struct" /\ a.x = 0) =>
    /\ ("merge" \in done /\ res.ok) =>
         \A i \in 1..Len(a.v) : a.v[i].skip => res.v[1].v[i] = a.v[i]
    /\ "merge_ref" \in done =>
         \A i \in 1..Len(a.v) : a.v[i].skip => resRef.self.v[i] = a.v[i]
    /\ Failing(a, b) = {} =>
         /\ "merge" \in done => res.ok
         /\ "merge_ref" \in done => resRef.ok

\* two Records whose skipped field `id` differs (two i32 never merge) and
\* whose other fields merge: the merge succeeds and keeps self's id
C18_Witness ==
  /\ a.t = "Struct" /\ a.x = 0 /\ Len(a.v) = 4
  /\ a.v[1].skip /\ a.v[1].v # b.v[1].v /\ ~Merge(a.v[1].v, b.v[1].v).ok
  /\ {"merge", "merge_ref"} \subseteq done
  /\ res.ok /\ res.v[1].v[1] = a.v[1]
  /\ resRef.ok /\ resRef.self.v[1] = a.v[1]


\* the list x.merge(y) must hold for two Ordered lists
OrderedContents(x, y) ==
  IF y.x = "Before" THEN Vec(y.v.v \o x.v.v) ELSE Vec(x.v.v \o y.v.v)

\* the contents of the operand tagged Before, then those of the other one
BeforeFirst(x, y) ==
  IF x.x = "Before" THEN Vec(x.v.v \o y.v.v) ELSE Vec(y.v.v \o x.v.v)

\* C19: merging Ordered lists puts other's elements first exactly when other
\* is tagged Before, whatever self's tag is; with different tags the
\* Before-tagged contents come first in both operand orders.
C19_OrderedSwaps ==
  a.t = "Ordered" =>
    /\ "merge" \in done => (res.ok /\ res.v[1].v = OrderedContents(a, b))
    /\ "merge_swapped" \in done => (resBA.ok /\ resBA.v[1].v = OrderedContents(b, a))
    /\ "merge_ref" \in done => (resRef.ok /\ resRef.self.v = OrderedContents(a, b))
    /\ a.x # b.x =>
         /\ "merge" \in done => res.v[1].v = BeforeFirst(a, b)
         /\ "merge_swapped" \in done => resBA.v[1].v = BeforeFirst(a, b)

\* self = [1] tagged After, other = [2] tagged Before: [2, 1] in both orders
C19_Witness ==
  /\ a.t = "Ordered" /\ a.x = "After" /\ b.x = "Before"
  /\ a.v = Vec(<<1>>) /\ b.v = Vec(<<2>>)
  /\ {"merge", "merge_swapped"} \subseteq done
  /\ res.v[1].v = Vec(<<2, 1>>) /\ resBA.v[1].v = Vec(<<2, 1>>)


\* the newline a merge of Lines puts after the text x, if any
Separator(x) == IF x # <<>> /\ x[Len(x)] = "\n" THEN <<>> ELSE <<"\n">>

\* C22: merging two Lines values never fails and yields self's text, then
\* one newline exactly when self's text does not end with one, then other's
\* text unchanged.
C22_LinesJoin ==
  a.t = "Lines" =>
    /\ "merge" \in done => res = Ok(Lines(a.v \o Separator(a.v) \o b.v))
    /\ "merge_swapped" \in done => resBA = Ok(Lines(b.v \o Separator(b.v) \o a.v))
    /\ "merge_ref" \in done => resRef = RefOk(Lines(a.v \o Separator(a.v) \o b.v))

\* "a\n" merged with "a" is "a\na", and "a" merged with "a\n" is "a\na\n"
C22_Witness ==
  /\ a.t = "Lines" /\ a.v = <<"a", "\n">> /\ b.v = <<"a">>
  /\ {"merge", "merge_swapped"} \subseteq done
  /\ res = Ok(Lines(<<"a", "\n", "a">>))
  /\ resBA = Ok(Lines(<<"a", "\n", "a", "\n">>))


(***************************************************************************)
(* Properties of MergeCell and IteratorExt (SpecCell).                     *)
(***************************************************************************)
\* every value the cell was given: the one it was created with, then the fed ones
Given == created \o fed

\* the left-to-right fold of a non-empty sequence by the consuming merge,
\* stopping at the first error
RECURSIVE FoldFrom(_, _)
FoldFrom(r, s) ==
  IF s = <<>> \/ ~r.ok THEN r ELSE FoldFrom(Merge(r.v[1], Head(s)), Tail(s))

FoldLeft(s) == FoldFrom(Ok(s[1]), Tail(s))

Permuted(s, p) == [i \in 1..Len(s) |-> s[p[i]]]

DistinctPriorities(s) == \A i, j \in 1..Len(s) : s[i].x = s[j].x => i = j

LowestPriority(s) == CHOOSE v \in {s[i] : i \in 1..Len(s)} : \A i \in 1..Len(s) : v.x <= s[i].x

\* C5: the outcome of merging a multiset of Overridable contributions (the
\* winner, or a Collision) is the same in every merge order.
C5_OrderIndependent ==
  (cellTy = "Overridable" /\ Given # <<>>) =>
    \A p \in Permutations(1..Len(Given)) : FoldLeft(Permuted(Given, p)) = try_finish(cell)[1]

\* C6: folding Overridable values of pairwise distinct priorities, in any
\* order, succeeds and yields the value of lowest priority with that priority.
C6_LowestPriorityWins ==
  (cellTy = "Overridable" /\ Given # <<>> /\ DistinctPriorities(Given)) =>
    /\ try_finish(cell) = <<Ok(LowestPriority(Given))>>
    /\ cellOut.call # "none" => cellOut.ret = <<Ok(LowestPriority(Given))>>

\* three contributions, the lowest priority fed last, finished
C6_Witness ==
  /\ cellTy = "Overridable" /\ Len(Given) = 3 /\ DistinctPriorities(Given)
  /\ Given[3].x < Given[1].x /\ Given[1].x < Given[2].x
  /\ cellOut.call = "try_finish" /\ cellOut.ret = <<Ok(Given[3])>>

\* C8: once a merge has failed the cell is frozen: a later feed neither calls
\* merge_ref nor changes the stored error, and finish / try_finish return
\* that error.
C8_FirstErrorKept ==
  [][has_errored(cell) =>
       /\ cell' = cell
       /\ attempts' = attempts
       /\ cellOut'.call # "none" => cellOut'.ret = <<Err(cell.result.err)>>]_vars

\* [v1, v2 colliding with v1 on key 1, v3 that would collide on key 2]: the
\* error of the v2 merge is returned and only one merge was attempted
C8_Witness ==
  /\ cellTy = "BTreeMap<i32>" /\ created = <<>> /\ Len(fed) = 3
  /\ DOMAIN fed[1].v = {1, 2} /\ DOMAIN fed[2].v = {1} /\ DOMAIN fed[3].v = {2}
  /\ attempts = 1
  /\ cellOut.call = "try_finish"
  /\ cellOut.ret = <<Err([kind |-> "Collision", modules |-> <<>>, value |-> <<KeyLabel(1)>>])>>

\* C9: try_finish / try_merge return None exactly when the cell was created
\* empty and never fed; otherwise the left-to-right fold of the values given,
\* in order, or its first error.  The first value fed to an empty cell is
\* stored without a merge.
C9_FinishIsFold ==
  /\ cellOut.call # "none" =>
       /\ cellOut.ret = <<>> <=> (created = <<>> /\ fed = <<>>)
       /\ cellOut.ret # <<>> => cellOut.ret = <<FoldLeft(Given)>>
  /\ (created = <<>> /\ Len(fed) = 1) =>
       (attempts = 0 /\ try_finish(cell) = <<Ok(fed[1])>>)

\* three lists fed to an empty cell come back concatenated in feed order
C9_Witness ==
  /\ cellTy = "ShortVec" /\ created = <<>>
  /\ fed = <<Vec(<<1>>), Vec(<<>>), Vec(<<2>>)>>
  /\ cellOut.call = "try_merge" /\ cellOut.ret = <<Ok(Vec(<<1, 2>>))>>


\* the elements of a sequence of lists, one list after the other
RECURSIVE Concat(_)
Concat(lists) == IF lists = <<>> THEN <<>> ELSE Head(lists).v \o Concat(Tail(lists))

\* C15: merging lists never fails and yields self's elements followed by
\* other's, order and duplicates kept; so the merge is associative,
\* (x.y).z = x.(y.z), and the empty list is an identity on both sides.
C15_ListConcat ==
  (cellTy = "ShortVec" /\ Given # <<>>) =>
    /\ cell.result.ok
    /\ cell.value = <<Vec(Concat(Given))>>
    /\ Len(Given) = 3 =>
         LET yz == Merge(Given[2], Given[3]) IN
         yz.ok /\ Merge(Given[1], yz.v[1]) = Ok(cell.value[1])
    /\ \A i \in 1..Len(Given) : Given[i] = Vec(<<>>) =>
         FoldLeft(Given) = IF Len(Given) = 1 THEN Ok(Vec(<<>>))
                           ELSE FoldLeft(SubSeq(Given, 1, i - 1) \o SubSeq(Given, i + 1, Len(Given)))

\* [1], [] , [2], [1] fed in that order: the empty list changes nothing, the
\* duplicate is kept
C15_Witness ==
  /\ cellTy = "ShortVec"
  /\ Given = <<Vec(<<1>>), Vec(<<>>), Vec(<<2>>), Vec(<<1>>)>>
  /\ cell.value = <<Vec(<<1, 2, 1>>)>>
  /\ cell.result.ok

\* C20: merging Last values never fails and the result holds other's inner
\* value; a fold of Last values ends with the last one fed.
C20_LastWins ==
  (cellTy = "Last" /\ Given # <<>>) =>
    /\ cell.result.ok
    /\ cell.value = <<Given[Len(Given)]>>
    /\ cellOut.call # "none" => cellOut.ret = <<Ok(Given[Len(Given)])>>

\* Last(1), Last(2), Last(1), Last(2) folded, then finished
C20_Witness ==
  /\ cellTy = "Last" /\ Len(Given) = 4
  /\ Given[1] = Last(Int32(1)) /\ Given[3] = Last(Int32(1)) /\ Given[4] = Last(Int32(2))
  /\ cellOut.call = "finish" /\ cellOut.ret = <<Ok(Last(Int32(2)))>>


\* C21: merging First values never fails and the result holds self's inner
\* value unchanged (the inner type's merge is not called: two i32 would
\* collide); a fold of First values ends with the first one fed.
C21_FirstWins ==
  (cellTy = "First" /\ Given # <<>>) =>
    /\ cell.result.ok
    /\ cell.value = <<Given[1]>>
    /\ cellOut.call # "none" => cellOut.ret = <<Ok(Given[1])>>

\* First(1), First(2), First(2), First(1) folded, then finished
C21_Witness ==
  /\ cellTy = "First" /\ Len(Given) = 4
  /\ Given[1] = First(Int32(1)) /\ Given[2] = First(Int32(2)) /\ Given[4] = First(Int32(1))
  /\ cellOut.call = "finish" /\ cellOut.ret = <<Ok(First(Int32(1)))>>


(***************************************************************************)
(* Properties of the File evaluator (SpecFile).                            *)
(***************************************************************************)
\* the modules a parsed module imports, among the paths that resolve
Imported(path) ==
  {canonicalize(parent(path), files[path].imports[i])[1] :
     i \in {j \in 1..Len(files[path].imports) :
              canonicalize(parent(path), files[path].imports[j]) # <<>>}}

\* the modules reachable from the modules in S through one or more imports
RECURSIVE ReachFrom(_)
ReachFrom(S) ==
  LET T == S \cup UNION {Imported(m) : m \in S} IN
  IF T = S THEN S ELSE ReachFrom(T)

ImportsBelow(path) == ReachFrom(Imported(path))

\* the path read by the i-th top-level call, <<>> when it does not resolve
Root(i) == canonicalize(Cwd, requests[i])

\* the i-th top-level call reads a module that imports itself, or one that
\* reaches such a module
ReadsACycle(i) ==
  /\ Root(i) # <<>>
  /\ \E m \in {Root(i)[1]} \cup ImportsBelow(Root(i)[1]) : m \in ImportsBelow(m)

\* every module that the i-th call can reach parses and declares only
\* imports that resolve, and at most one module parsed so far sets `key`
ReadsCleanly(i) ==
  /\ \A m \in {Root(i)[1]} \cup ImportsBelow(Root(i)[1]) :
       /\ files[m].parses
       /\ \A j \in 1..Len(files[m].imports) :
            canonicalize(parent(m), files[m].imports[j]) # <<>>
  /\ Cardinality({m \in Files : files[m].key}) <= 1

\* C3, the claim as written: a read that reaches a module importing itself
\* always ends with a Cycle error.
C3_CycleAlwaysCycle ==
  \A i \in 1..Len(results) :
    ReadsACycle(i) => (~results[i].ok /\ results[i].err.kind = "Cycle")

\* C3, amended: a read that reaches a module importing itself always fails,
\* and fails with Cycle when no path fails to resolve, no module fails to
\* parse and no merge fails before the cycle is closed.
C3_CycleFails ==
  \A i \in 1..Len(results) :
    ReadsACycle(i) =>
      /\ ~results[i].ok
      /\ ReadsCleanly(i) => results[i].err.kind = "Cycle"

\* a cycle of length two through both directories, reported as Cycle
C3_Witness ==
  /\ Len(results) = 1 /\ Root(1) = <<<<"/", 1>>>>
  /\ files[<<"/", 1>>].imports = <<[dir |-> ".", name |-> 2]>>
  /\ files[<<"/", 2>>].imports = <<[dir |-> ".", name |-> 1]>>
  /\ ReadsACycle(1) /\ ReadsCleanly(1)
  /\ ~results[1].ok /\ results[1].err.kind = "Cycle"

\* the modules below path in depth-first pre-order, imports left to right
RECURSIVE PreOrder(_), PreOrderAll(_, _)
PreOrder(path) == <<path>> \o PreOrderAll(parent(path), files[path].imports)

PreOrderAll(base, entries) ==
  IF entries = <<>> THEN <<>>
  ELSE PreOrder(canonicalize(base, Head(entries))[1]) \o PreOrderAll(base, Tail(entries))

\* the first top-level read has returned Ok and no second one was started
FirstReadOk == Len(requests) = 1 /\ Len(results) = 1 /\ results[1].ok

\* C4: after a root is evaluated the accumulated value holds the modules'
\* values merged in depth-first pre-order of the import tree (a module before
\* its imports, imports left to right, each subtree finished before the next
\* import); a Last field ends with the value of the last module in that order.
C4_PreOrderMerge ==
  FirstReadOk =>
    LET order == PreOrder(Root(1)[1]) IN
    /\ value # <<>>
    /\ value[1].v[2].v = Vec(order)
    /\ value[1].v[3].v = Some(Last(order[Len(order)]))
    /\ parsed = order

\* R = /1 imports [B = /2, C = /s/1] and B imports [D = /s/2]: merged R, B, D, C
C4_Witness ==
  /\ FirstReadOk
  /\ files[<<"/", 1>>].imports = <<[dir |-> ".", name |-> 2], [dir |-> "s", name |-> 1]>>
  /\ files[<<"/", 2>>].imports = <<[dir |-> "s", name |-> 2]>>
  /\ value[1].v[2].v = Vec(<<<<"/", 1>>, <<"/", 2>>, <<"/s", 2>>, <<"/s", 1>>>>)
  /\ value[1].v[3].v = Some(Last(<<"/s", 1>>))

\* C10: finish returns Some exactly when some call of read returned Ok.
C10_SomeIffReadOk ==
  fout # <<>> => (fout[1] # <<>> <=> readOk)


\* the last top-level read failed and its error is the one last raised
LastReadFailed ==
  /\ fpc # "unwinding"
  /\ results # <<>>
  /\ ~results[Len(results)].ok

\* the modules of an error in the order they were added
Pushed(e) == Reverse(e.modules)

\* the rendering of a chain of modules given innermost first
InFrom(chain) ==
  [i \in 1..Len(chain) |-> [word |-> IF i = 1 THEN "in" ELSE "from", module |-> chain[i]]]

\* C11: when evaluation fails in module M reached through the import chain
\* R -> ... -> P -> M (M is already visited, does not parse or does not
\* merge), the module trace holds M, P, ..., R in the order added, each
\* position of the chain once, and the rendering prints "in M" and then one
\* "from" line per enclosing module, P first and R last.  (A path that does
\* not canonicalize names no module: the trace then starts at P.)
C11_TraceIsChain ==
  LastReadFailed =>
    LET e == results[Len(results)].err
        chain == Reverse(raised.callers \o raised.module) IN
    /\ Pushed(e) = chain
    /\ Display(e).lines = InFrom(chain)
    /\ \A i, j \in 1..Len(chain) : chain[i] = chain[j] /\ i # j =>
         (i = 1 \/ j = 1) /\ e.kind = "Cycle"

\* /1 imports /2, /2 imports /s/1, and /s/1 does not parse
C11_Witness ==
  /\ LastReadFailed
  /\ raised = [callers |-> <<<<"/", 1>>, <<"/", 2>>>>, module |-> <<<<"/s", 1>>>>]
  /\ ~files[<<"/s", 1>>].parses
  /\ Display(results[Len(results)].err).lines =
       <<[word |-> "in", module |-> <<"/s", 1>>],
         [word |-> "from", module |-> <<"/", 2>>],
         [word |-> "from", module |-> <<"/", 1>>]>>



\* the import that the call at depth i of the stack is reading (or has just
\* read): the one before its imports still to do
Reading(i) ==
  LET imports == files[stack[i].path].imports IN
  imports[Len(imports) - Len(stack[i].todo)]

\* the directory an import entry names, seen from the directory dir
Towards(dir, entry) ==
  IF entry.dir = "." THEN dir
  ELSE IF dir = "/" THEN "/s" ELSE "/s/s"

\* C23: every import is resolved against the parent directory of the module
\* that declares it, at every depth: the module a nested call reads lies in
\* the directory its import names as seen from its importer's directory, and
\* not from the root's directory or the working directory.
C23_ImportsFromParent ==
  /\ \A i \in 2..Len(stack) :
       stack[i].path = <<Towards(stack[i - 1].path[1], Reading(i - 1)), Reading(i - 1).name>>
  /\ (fpc = "unwinding" /\ raised.module # <<>> /\ Len(stack) = Len(raised.callers)) =>
       raised.module[1] =
         <<Towards(stack[Len(stack)].path[1], Reading(Len(stack))), Reading(Len(stack)).name>>

\* /1 imports s/1 and /s/1 imports ./2, which is /s/2 and not /2
C23_Witness ==
  /\ Len(stack) = 3
  /\ stack[1].path = <<"/", 1>> /\ stack[2].path = <<"/s", 1>> /\ stack[3].path = <<"/s", 2>>
  /\ Reading(1) = [dir |-> "s", name |-> 1]
  /\ Reading(2) = [dir |-> ".", name |-> 2]

\* the error an observer sees: the one on its way up, else the one the last
\* failed call returned
Seen == IF fpc = "unwinding" THEN ferr ELSE results[Len(results)].err

\* the modules added to it so far, in the order added
Added ==
  LET all == Reverse(raised.callers \o raised.module)
      pending == IF fpc = "unwinding" THEN Len(stack) ELSE 0 IN
  SubSeq(all, 1, Len(all) - pending)

\* C24: a trace is prepend-only and iterates its labels most recently added
\* first: after add(x1), ..., add(xn) it yields xn, ..., x1 and nothing
\* else, at every point of the propagation of an error.
C24_TraceReversesAdds ==
  (fpc = "unwinding" \/ LastReadFailed) => Seen.modules = Reverse(Added)

\* an error two levels up from where it was raised, one caller still to add
C24_Witness ==
  /\ fpc = "unwinding" /\ Len(stack) = 1
  /\ Len(raised.callers) = 2 /\ raised.module # <<>>
  /\ Added = <<raised.module[1], raised.callers[2]>>
  /\ ferr.modules = <<raised.callers[2], raised.module[1]>>


\* C25: over the lifetime of one evaluator, across every sequence of read
\* calls, Format::read is handed any canonical path at most once.
C25_ParsedOnce ==
  \A i, j \in 1..Len(parsed) : parsed[i] = parsed[j] => i = j


\* the set of the items of a sequence
Range(s) == {s[i] : i \in 1..Len(s)}

\* C26: once a module has failed to canonicalize, parse or merge inside a read
\* call, every further step of that call only hands the error to the caller:
\* no module is parsed or merged, the imports still to do of the failing
\* module's ancestors are dropped, and the call returns that error with its
\* kind and value context unchanged.
C26_AbortsOnFirstError ==
  [][fpc = "unwinding" =>
       /\ fpc' \in {"unwinding", "idle"}
       /\ parsed' = parsed /\ files' = files
       /\ value' = value /\ evaluated' = evaluated
       /\ Len(stack') = Len(stack) - 1
       /\ ferr'.kind = ferr.kind /\ ferr'.value = ferr.value
       /\ fpc' = "idle" => results' = Append(results, [ok |-> FALSE, err |-> ferr'])]_vars

\* the first read failed in an import of its root, whose next import was
\* never parsed
C26_Witness ==
  /\ fpc = "idle" /\ Len(results) = 1 /\ ~results[1].ok
  /\ raised.callers = <<<<"/", 1>>>>
  /\ Len(files[<<"/", 1>>].imports) = 2
  /\ files[<<"/", 1>>].imports[2] = [dir |-> ".", name |-> 2]
  /\ raised.module # <<<<"/", 2>>>>
  /\ <<"/", 2>> \notin Range(parsed)
  /\ results[1].err.kind = ferr.kind


\* C27: a read on a fresh evaluator fails with Cycle only when a module it
\* reaches directly or transitively imports itself; a module reachable
\* through two different import paths of an acyclic graph raises no Cycle.
C27_CycleOnlyIfCyclic ==
  (results # <<>> /\ ~results[1].ok /\ results[1].err.kind = "Cycle") => ReadsACycle(1)


\* C28: the accumulated value is present exactly when the visited set is not
\* empty, and the visited set only ever grows; so once a call of File::read
\* has returned Ok the value is present, and finish() then returns Some (the
\* expect of the free function read cannot fail).
C28_ValuePresent ==
  /\ [](/\ value # <<>> <=> evaluated # {}
        /\ (\E i \in 1..Len(results) : results[i].ok) =>
             /\ value # <<>>
             /\ fpc = "finished" => fout # <<>> /\ fout[1] # <<>>)
  /\ [][evaluated \subseteq evaluated']_vars

\* read(path) returned Ok and finish() returned Some, as in the free function
C28_Witness ==
  /\ fpc = "finished"
  /\ Len(results) = 1 /\ results[1].ok
  /\ fout # <<>> /\ fout[1] = value /\ value # <<>>
  /\ evaluated # {}


\* C29: a failed in-place merge loses no data of the receiver: when merge_ref
\* on a map returns an error, the receiver still has every key it had before
\* the call.
C29_FailureKeepsKeys ==
  (a.t = "BTreeMap" /\ "merge_ref" \in done /\ ~resRef.ok) =>
    DOMAIN a.v \subseteq DOMAIN resRef.self.v


\* C30: whatever the imports of the finitely many module files (acyclic,
\* cyclic, self-importing, repeated), a call of File::read hands no path to
\* Format::read twice, so it parses at most as many modules as there are
\* canonical paths, and it returns, with Ok or with an error.
C30_ReadTerminates ==
  /\ [](/\ Len(inCall) <= Cardinality(Files)
        /\ \A i, j \in 1..Len(inCall) : inCall[i] = inCall[j] => i = j)
  /\ (fpc \in {"running", "unwinding"}) ~> (fpc = "idle")

\* a call that went round a cycle of three modules has returned
C30_Witness ==
  /\ fpc = "idle" /\ Len(results) = 1
  /\ ReadsACycle(1)
  /\ Len(inCall) = 3
  /\ Root(1)[1] \in ImportsBelow(Root(1)[1])
  /\ ~results[1].ok /\ results[1].err.kind = "Cycle"

====
